---- MODULE Spec2Model ----
(***************************************************************************)
(* Model of package odfl (olddominion.go): the process-wide mode and       *)
(* timeout, the PickupRequest object, and RequestPickup's four stages      *)
(* (marshal, post, read, unmarshal).  One caller thread drives the         *)
(* package; the network and the encoder's faults are inputs of a call.     *)
(***************************************************************************)
EXTENDS Integers, Sequences, FiniteSets, TLC

VARIABLES testMode, timeout, p, ret, calls, posts, promoted, declined, requested

vars == <<testMode, timeout, p, ret, calls, posts, promoted, declined, requested>>

\* ------------------------------------------------------------------ bounds
\* RequestPickup invocations explored in one behaviour.
MaxCalls == 2

\* ------------------------------------------------- time.Duration (int64 ns)
\* A Duration is an int64 count of nanoseconds.  It is held as its eight
\* two's-complement bytes, least significant first, so that the product of
\* two Durations wraps modulo 2^64 as Go's does.
RECURSIVE NatBytes(_, _)
NatBytes(n, k) == IF k = 0 THEN <<>> ELSE <<n % 256>> \o NatBytes(n \div 256, k - 1)

Int64(n) == NatBytes(n, 8)

RECURSIVE ColumnSum(_, _, _, _)
ColumnSum(a, b, k, i) ==
    IF i > k THEN 0 ELSE a[i] * b[k + 1 - i] + ColumnSum(a, b, k, i + 1)

RECURSIVE MulFrom(_, _, _, _)
MulFrom(a, b, k, carry) ==
    IF k > 8 THEN <<>>
    ELSE LET t == ColumnSum(a, b, k, 1) + carry
         IN  <<t % 256>> \o MulFrom(a, b, k + 1, t \div 256)

\* a * b on int64, wrapping.
Mul64(a, b) == MulFrom(a, b, 1, 0)

\* d > 0 as a signed int64.
Positive(d) == d[8] < 128 /\ d # Int64(0)

\* time.Second
Second == Int64(1000000000)

\* var timeout = time.Duration(10 * time.Second)
DefaultTimeout == Mul64(Int64(10), Second)

\* ------------------------------------------------------------ package vars
soapenv == "http://schemas.xmlsoap.org/soap/envelope/"

pic == "http://pickup.ws.odfl.com"

odURL == "http://www.odfl.com/wsPickup_v1b/services/ODPickupSOAP"

\* ------------------------------------------------------------------ errors
\* A Go error is the chain of its messages, outermost first; nil is <<>>.
NilErr == <<>>

Wrap(err, msg) == <<msg>> \o err

\* A map[string]interface{}: nil, or a set of <<key, value>> entries.
NilMap == [isNil |-> TRUE, kv |-> {}]

MakeMap(entries) == [isNil |-> FALSE, kv |-> entries]

\* ------------------------------------------------------------- XML values
Elem(name, attrs, text, children) ==
    [name |-> name, attrs |-> attrs, text |-> text, children |-> children]

Leaf(name, text) == Elem(name, <<>>, text, <<>>)

Attr(name, value) == [name |-> name, value |-> value]

\* strconv.FormatBool
FormatBool(b) == IF b THEN "true" ELSE "false"

Digit(d) == CASE d = 0 -> "0" [] d = 1 -> "1" [] d = 2 -> "2" [] d = 3 -> "3"
              [] d = 4 -> "4" [] d = 5 -> "5" [] d = 6 -> "6" [] d = 7 -> "7"
              [] d = 8 -> "8" [] d = 9 -> "9"

\* strconv.FormatUint(n, 10)
RECURSIVE FormatUint(_)
FormatUint(n) == IF n < 10 THEN Digit(n) ELSE FormatUint(n \div 10) \o Digit(n % 10)

\* strconv.FormatFloat(f, 'g', -1, 64) on the weights of the model: a weight is
\* held in tenths, and the shortest form drops a zero fraction.
FormatFloat(tenths) ==
    IF tenths % 10 = 0 THEN FormatUint(tenths \div 10)
    ELSE FormatUint(tenths \div 10) \o "." \o Digit(tenths % 10)

\* ------------------------------------------------------------ request model
\* The fields of type Shipper in declaration order: <<field, element name,
\* kind>>.  Country carries the tag key xmml, which encoding/xml does not read,
\* so its element takes the field's own name.
ShipperFields == <<
    <<"ODFL4MeUser", "odfl4meUser", "string">>,
    <<"ODFL4MePassword", "odfl4mePassword", "string">>,
    <<"CompanyName", "companyName", "string">>,
    <<"AddressLine1", "addressLine1", "string">>,
    <<"City", "city", "string">>,
    <<"StateProvince", "stateProvince", "string">>,
    <<"PostalCode", "postalCode", "string">>,
    <<"Country", "Country", "string">>,
    <<"ContactFName", "contactFName", "string">>,
    <<"ContactLName", "contactLName", "string">>,
    <<"PhoneAreaCode", "phoneAreaCode", "string">>,
    <<"PhoneNumber", "phoneNumber", "string">>,
    <<"TestFlag", "testFlag", "bool">>,
    <<"PickupDate", "pickupDate", "string">>,
    <<"PickupTime", "pickupTime", "string">>,
    <<"PickupTimeAMPM", "pickupTimeAMPM", "string">>,
    <<"WhoEntered", "whoEntered", "string">>,
    <<"WhoPhoneNumber", "whoPhoneNumber", "string">>,
    <<"AccountNumber", "accountNumber", "string">>,
    <<"Attention", "attention", "string">>,
    <<"AddressLine2", "addressLine2", "string">>,
    <<"PhoneExt", "phoneExt", "string">>,
    <<"FaxAreaCode", "faxAreaCode", "string">>,
    <<"FaxNumber", "faxNumber", "string">>,
    <<"Email", "email", "string">>,
    <<"Comments", "comments", "string">>,
    <<"DockCloseTime", "dockCloseTime", "string">>,
    <<"DockCloseAMPM", "dockCloseAMPM", "string">> >>

\* The fields of type Consignee in declaration order.
ConsigneeFields == <<
    <<"CustomerShipmentID", "customerShipmentId", "string">>,
    <<"City", "city", "string">>,
    <<"StateProvince", "stateProvince", "string">>,
    <<"PostalCode", "postalCode", "string">>,
    <<"Country", "country", "string">>,
    <<"PhoneAreaCode", "phoneAreaCode", "string">>,
    <<"PhoneNumber", "phoneNumber", "string">>,
    <<"HandlingUnits", "handlingUnits", "uint">>,
    <<"Pieces", "pieces", "uint">>,
    <<"UnitType", "unitType", "string">>,
    <<"Weight", "weight", "float64">>,
    <<"PaymentMethod", "paymentMethod", "string">>,
    <<"CompanyName", "companyName", "string">>,
    <<"AddressLine1", "addressLine1", "string">>,
    <<"AddressLine2", "addressLine2", "string">>,
    <<"ContactFName", "contactFName", "string">>,
    <<"ContactLName", "contactLName", "string">>,
    <<"PhoneExt", "phoneExt", "string">>,
    <<"FaxAreaCode", "faxAreaCode", "string">>,
    <<"FaxNumber", "faxNumber", "string">>,
    <<"Email", "email", "string">>,
    <<"Hazmat", "hazmat", "string">>,
    <<"Freezable", "freezable", "string">>,
    <<"Description", "description", "string">> >>

\* A Shipper as a caller fills it in: company c, test flag t.
Shipper(c, t) ==
    [ODFL4MeUser |-> "user", ODFL4MePassword |-> "secret", CompanyName |-> c,
     AddressLine1 |-> "1 Main St", City |-> "Thomasville", StateProvince |-> "NC",
     PostalCode |-> "27360", Country |-> "USA", ContactFName |-> "Ann",
     ContactLName |-> "Lee", PhoneAreaCode |-> "336", PhoneNumber |-> "5550100",
     TestFlag |-> t, PickupDate |-> "20180301", PickupTime |-> "023000",
     PickupTimeAMPM |-> "PM", WhoEntered |-> "Ann", WhoPhoneNumber |-> "3365550100",
     AccountNumber |-> "", Attention |-> "", AddressLine2 |-> "", PhoneExt |-> "",
     FaxAreaCode |-> "", FaxNumber |-> "", Email |-> "", Comments |-> "",
     DockCloseTime |-> "", DockCloseAMPM |-> ""]

\* A Consignee as a caller fills it in: w is the weight in tenths.
Consignee(w) ==
    [CustomerShipmentID |-> "S-1", City |-> "Dallas", StateProvince |-> "TX",
     PostalCode |-> "75201", Country |-> "USA", PhoneAreaCode |-> "214",
     PhoneNumber |-> "5550199", HandlingUnits |-> 1, Pieces |-> 1,
     UnitType |-> "SKID", Weight |-> w, PaymentMethod |-> "", CompanyName |-> "",
     AddressLine1 |-> "", AddressLine2 |-> "", ContactFName |-> "",
     ContactLName |-> "", PhoneExt |-> "", FaxAreaCode |-> "", FaxNumber |-> "",
     Email |-> "", Hazmat |-> "", Freezable |-> "", Description |-> ""]

PickupRequest(sa, pa, shipper, consignee) ==
    [SoapenvAttr |-> sa, PicAttr |-> pa, Shipper |-> shipper, Consignee |-> consignee]

\* ------------------------------------------------------------- xml.Marshal
FieldText(value, kind) ==
    CASE kind = "string"  -> value
      [] kind = "bool"    -> FormatBool(value)
      [] kind = "uint"    -> FormatUint(value)
      [] kind = "float64" -> FormatFloat(value)

MarshalFields(rec, fields) ==
    [i \in 1..Len(fields) |-> Leaf(fields[i][2], FieldText(rec[fields[i][1]], fields[i][3]))]

\* The document xml.Marshal writes for a *PickupRequest: the two attributes on
\* the root, then the a>b>c parent chains of the Shipper and Consignee tags,
\* which share soapenv:Header>soapenv:Body>pic:pickupRequest.
Document(obj) ==
    Elem("soapenv:Envelope",
         <<Attr("xmlns:soapenv", obj.SoapenvAttr), Attr("xmlns:pic", obj.PicAttr)>>,
         "",
         <<Elem("soapenv:Header", <<>>, "",
             <<Elem("soapenv:Body", <<>>, "",
                 <<Elem("pic:pickupRequest", <<>>, "",
                     <<Elem("shipper", <<>>, "",
                            MarshalFields(obj.Shipper, ShipperFields)),
                       Elem("consignees", <<>>, "",
                            <<Elem("Consignee", <<>>, "",
                                   MarshalFields(obj.Consignee, ConsigneeFields))>>)
                     >>)>>)>>)>>)

\* xmlBytes, err := xml.Marshal(p); fault is the encoder's verdict on the value.
Marshal(obj, fault) ==
    IF fault THEN [bytes |-> <<>>, err |-> <<"xml: unsupported value">>]
    ELSE [bytes |-> <<Document(obj)>>, err |-> NilErr]

\* Reading a document back.
Child(e, name) ==
    e.children[CHOOSE i \in 1..Len(e.children) : e.children[i].name = name]

HasAttr(e, name) == \E i \in 1..Len(e.attrs) : e.attrs[i].name = name

AttrValue(e, name) ==
    e.attrs[CHOOSE i \in 1..Len(e.attrs) : e.attrs[i].name = name].value

PickupRequestElem(doc) ==
    Child(Child(Child(doc, "soapenv:Header"), "soapenv:Body"), "pic:pickupRequest")

PayloadTestFlag(doc) == Child(Child(PickupRequestElem(doc), "shipper"), "testFlag").text

\* ------------------------------------------------------- the carrier's reply
StartTok(name) == [tok |-> "start", name |-> name, text |-> ""]

EndTok(name) == [tok |-> "end", name |-> name, text |-> ""]

CharData(text) == [tok |-> "chardata", name |-> "", text |-> text]

\* A well-formed reply carrying one key-value pair.
ConfirmBody ==
    <<StartTok("pickupResponse"), StartTok("confirmationNumber"), CharData("TEST123"),
      EndTok("confirmationNumber"), EndTok("pickupResponse")>>

\* A well-formed reply carrying two pairs (a SOAP fault in the body).
FaultBody ==
    <<StartTok("pickupResponse"), StartTok("faultcode"), CharData("Client"),
      EndTok("faultcode"), StartTok("faultstring"), CharData("bad account"),
      EndTok("faultstring"), EndTok("pickupResponse")>>

\* FaultBody cut off inside its second pair.
TruncatedBody == SubSeq(FaultBody, 1, 6)

\* A reply that is no XML element at all.
JsonBody == <<CharData("{\"confirmationNumber\":\"TEST123\"}")>>

Bodies == {ConfirmBody, FaultBody, TruncatedBody, JsonBody}

\* One root element, holding <key>value</key> children only.
WellFormed(body) ==
    /\ Len(body) >= 2
    /\ body[1].tok = "start"
    /\ body[Len(body)] = EndTok(body[1].name)
    /\ (Len(body) - 2) % 3 = 0
    /\ \A k \in 0..((Len(body) - 2) \div 3 - 1) :
          /\ body[3 * k + 2].tok = "start"
          /\ body[3 * k + 3].tok = "chardata"
          /\ body[3 * k + 4] = EndTok(body[3 * k + 2].name)

\* The key-value pairs found in the leading complete children of the root.
PairsUpTo(body, n) ==
    {<<body[i].name, body[i + 1].text>> :
        i \in {j \in 2..n : /\ j + 2 <= n
                            /\ body[j].tok = "start"
                            /\ body[j + 1].tok = "chardata"
                            /\ body[j + 2] = EndTok(body[j].name)}}

Pairs(body) == PairsUpTo(body, Len(body))

\* ------------------------------------------------------------ xml.Unmarshal
\* A decoder that fills the map as it reads and reports the fault it meets.
UnmarshalPartial(body, target) ==
    IF WellFormed(body) THEN [v |-> MakeMap(Pairs(body)), err |-> NilErr]
    ELSE [v |-> MakeMap(Pairs(body)), err |-> <<"XML syntax error: unexpected EOF">>]

\* xml.Unmarshal(body, &target) for a target of type map[string]interface{}.
\* The decoder reads tokens up to the first start element (io.EOF when there is
\* none) and then switches on the kind of the target; a map is none of the
\* kinds it decodes into, so the target is left as it was and an error returned.
Unmarshal(body, target) ==
    IF \A i \in 1..Len(body) : body[i].tok # "start"
    THEN [v |-> target, err |-> <<"EOF">>]
    ELSE [v |-> target, err |-> <<"unknown type map[string]interface {}">>]

\* ------------------------------------------------------------- http.Client
\* httpClient.Post(odURL, "text/xml", body) with Timeout: t.  The network's
\* answer is an input: "ok", "refused", or "timeout"; the client sets a
\* deadline only for a Timeout greater than zero.
NetOutcomes(t) == {"ok", "refused"} \cup (IF Positive(t) THEN {"timeout"} ELSE {})

Post(url, contentType, body, t, net) ==
    CASE net = "ok"      -> [res |-> "open", err |-> NilErr]
      [] net = "refused" -> [res |-> "none", err |-> <<"dial tcp: connection refused">>]
      [] net = "timeout" -> [res |-> "none", err |-> <<"Client.Timeout exceeded">>]

\* ioutil.ReadAll(res.Body)
ReadAll(body, readOK) ==
    IF readOK THEN [body |-> body, err |-> NilErr]
    ELSE [body |-> <<>>, err |-> <<"unexpected EOF">>]

\* ----------------------------------------------------------- RequestPickup
\* The frame of one call: the object behind p, what was POSTed, the Timeout of
\* each http.Client built, the response body stream ("none", "open",
\* "closed"), the deferred calls, the named results and the stage reached.
Frame(obj) ==
    [p |-> obj, sent |-> <<>>, client |-> <<>>, response |-> "none",
     deferred |-> <<>>, responseData |-> NilMap, err |-> NilErr, stage |-> "entry"]

\* return: the deferred calls run.
Return(f) ==
    [f EXCEPT !.response =
        IF \E i \in 1..Len(f.deferred) : f.deferred[i] = "res.Body.Close"
        THEN "closed" ELSE @]

\* Lines 175-185: decode the body into responseData.
DecodeStage(f, body) ==
    LET u == Unmarshal(body, f.responseData)
    IN  IF u.err # NilErr
        THEN Return([f EXCEPT !.responseData = u.v, !.stage = "decode",
                        !.err = Wrap(u.err, "odfl.RequestPickup - could not read response 2")])
        ELSE Return([f EXCEPT !.responseData = u.v, !.stage = "done", !.err = NilErr])

\* The deferred close registered only once the read has succeeded.
ReadStageLateDefer(f, env) ==
    LET rd == ReadAll(env.body, env.readOK)
    IN  IF rd.err # NilErr
        THEN Return([f EXCEPT !.stage = "read",
                        !.err = Wrap(rd.err, "odfl.RequestPickup - could not read response 1")])
        ELSE DecodeStage([f EXCEPT !.deferred = <<"res.Body.Close">> \o @], rd.body)

\* Lines 167-173: read the response; the close is deferred before the error
\* of the read is looked at.
ReadStage(f, env) ==
    LET rd == ReadAll(env.body, env.readOK)
        g  == [f EXCEPT !.deferred = <<"res.Body.Close">> \o @]
    IN  IF rd.err # NilErr
        THEN Return([g EXCEPT !.stage = "read",
                        !.err = Wrap(rd.err, "odfl.RequestPickup - could not read response 1")])
        ELSE DecodeStage(g, rd.body)

\* A second POST of the same bytes when the first fails.
PostStageRetry(f, xmlBytes, mode, tmo, env) ==
    LET g == [f EXCEPT !.p.SoapenvAttr = soapenv, !.p.PicAttr = pic,
                       !.p.Shipper.TestFlag = mode,
                       !.client = Append(@, tmo)]
        r == Post(odURL, "text/xml", xmlBytes, tmo, env.net)
    IN  IF r.err # NilErr
        THEN LET r2 == Post(odURL, "text/xml", xmlBytes, tmo, env.net)
             IN  Return([g EXCEPT !.sent = @ \o xmlBytes \o xmlBytes, !.stage = "post",
                            !.err = Wrap(r2.err, "odfl.RequestPickup - could not make post request")])
        ELSE ReadStage([g EXCEPT !.sent = @ \o xmlBytes, !.response = r.res], env)

\* The injection also blanking the country the Country tag misnames.
PostStageClobber(f, xmlBytes, mode, tmo, env) ==
    LET g == [f EXCEPT !.p.SoapenvAttr = soapenv, !.p.PicAttr = pic,
                       !.p.Shipper.TestFlag = mode, !.p.Shipper.Country = "",
                       !.client = Append(@, tmo)]
        r == Post(odURL, "text/xml", xmlBytes, tmo, env.net)
    IN  IF r.err # NilErr
        THEN Return([g EXCEPT !.sent = @ \o xmlBytes, !.stage = "post",
                        !.err = Wrap(r.err, "odfl.RequestPickup - could not make post request")])
        ELSE ReadStage([g EXCEPT !.sent = @ \o xmlBytes, !.response = r.res], env)

\* Lines 149-165: write the attributes and the test flag on the object, build
\* the client with the package timeout, POST the bytes marshalled before.
PostStage(f, xmlBytes, mode, tmo, env) ==
    LET g == [f EXCEPT !.p.SoapenvAttr = soapenv, !.p.PicAttr = pic,
                       !.p.Shipper.TestFlag = mode,
                       !.client = Append(@, tmo)]
        r == Post(odURL, "text/xml", xmlBytes, tmo, env.net)
    IN  IF r.err # NilErr
        THEN Return([g EXCEPT !.sent = @ \o xmlBytes, !.stage = "post",
                        !.err = Wrap(r.err, "odfl.RequestPickup - could not make post request")])
        ELSE ReadStage([g EXCEPT !.sent = @ \o xmlBytes, !.response = r.res], env)

\* The attributes and the flag written before the object is marshalled.
RequestPickupInjectFirst(obj, mode, tmo, env) ==
    LET o == [obj EXCEPT !.SoapenvAttr = soapenv, !.PicAttr = pic, !.Shipper.TestFlag = mode]
        m == Marshal(o, env.fault)
    IN  IF m.err # NilErr
        THEN Return([Frame(o) EXCEPT !.stage = "marshal",
                        !.err = Wrap(m.err, "odfl.RequestPickup - could not marshal xml")])
        ELSE PostStage(Frame(o), m.bytes, mode, tmo, env)

\* Lines 141-186, the whole call: marshal first, then the rest.
RequestPickupRun(obj, mode, tmo, env) ==
    LET m == Marshal(obj, env.fault)
    IN  IF m.err # NilErr
        THEN Return([Frame(obj) EXCEPT !.stage = "marshal",
                        !.err = Wrap(m.err, "odfl.RequestPickup - could not marshal xml")])
        ELSE PostStage(Frame(obj), m.bytes, mode, tmo, env)

\* ------------------------------------------------------------------- state
\* What the caller keeps of the last RequestPickup: the object, testMode and
\* the promotion and SetTimeout history at entry, the reply body that was
\* read, and the frame at return.
NoCall(obj) ==
    [called |-> FALSE, entry |-> obj, mode |-> TRUE, promoted |-> FALSE,
     requested |-> <<>>,
     reply |-> <<>>, f |-> Frame(obj)]

\* The shipments a caller builds: <<company, weight in tenths>>.
Shipments == {<<"Acme Freight", 1505>>, <<"Bolt Supply", 200>>}

\* The values a caller can leave in SoapenvAttr.
CallerAttrs == {"", "urn:stale"}

\* The Durations a caller passes to SetTimeout: 0, 5ns (a bare 5) and 10s.
TimeoutArgs == {Int64(0), Int64(5), Mul64(Int64(10), Second)}

\* What the encoder, the network and the carrier do to one call.
Env(fault, net, readOK, body) ==
    [fault |-> fault, net |-> net, readOK |-> readOK, body |-> body]

Envs(t) ==
    {Env(TRUE, "ok", TRUE, <<>>), Env(FALSE, "ok", FALSE, <<>>)}
    \cup {Env(FALSE, net, TRUE, <<>>) : net \in NetOutcomes(t) \ {"ok"}}
    \cup {Env(FALSE, "ok", TRUE, body) : body \in Bodies}

Init ==
    /\ testMode = TRUE
    /\ timeout = DefaultTimeout
    /\ \E s \in Shipments, t \in BOOLEAN, a \in CallerAttrs :
          p = PickupRequest(a, "", Shipper(s[1], t), Consignee(s[2]))
    /\ ret = NoCall(p)
    /\ calls = 0
    /\ posts = 0
    /\ promoted = FALSE
    /\ declined = FALSE
    /\ requested = <<>>

\* testMode = !yes
SetProductionModeAssign(yes) ==
    /\ testMode' = ~yes
    /\ promoted' = (promoted \/ yes)
    /\ declined' = (declined \/ (promoted /\ ~yes))
    /\ UNCHANGED <<timeout, p, ret, calls, posts, requested>>

\* Lines 125-131.  promoted: SetProductionMode(true) has been called;
\* declined: SetProductionMode(false) has been called after that.
SetProductionMode(yes) ==
    /\ testMode' = IF yes THEN FALSE ELSE testMode
    /\ promoted' = (promoted \/ yes)
    /\ declined' = (declined \/ (promoted /\ ~yes))
    /\ UNCHANGED <<timeout, p, ret, calls, posts, requested>>

\* Lines 135-138: timeout = time.Duration(seconds * time.Second).
SetTimeout(seconds) ==
    /\ timeout' = Mul64(seconds, Second)
    /\ requested' = <<seconds>>
    /\ UNCHANGED <<testMode, p, ret, calls, posts, promoted, declined>>

\* The caller writes Shipper.TestFlag on the object between calls.
CallerSetTestFlag(b) ==
    /\ p' = [p EXCEPT !.Shipper.TestFlag = b]
    /\ UNCHANGED <<testMode, timeout, ret, calls, posts, promoted, declined, requested>>

\* p.RequestPickup(), one call from entry to return.
RequestPickup ==
    /\ calls < MaxCalls
    /\ \E env \in Envs(timeout) :
          LET f == RequestPickupRun(p, testMode, timeout, env)
          IN  /\ p' = f.p
              /\ ret' = [called |-> TRUE, entry |-> p, mode |-> testMode,
                         promoted |-> promoted, requested |-> requested,
                         reply |-> IF f.stage \in {"decode", "done"} THEN env.body ELSE <<>>,
                         f |-> f]
              /\ posts' = posts + Len(f.sent)
    /\ calls' = calls + 1
    /\ UNCHANGED <<testMode, timeout, promoted, declined, requested>>

Next ==
    \/ \E yes \in BOOLEAN : SetProductionMode(yes)
    \/ \E v \in TimeoutArgs : SetTimeout(v)
    \/ \E b \in BOOLEAN : CallerSetTestFlag(b)
    \/ RequestPickup

Spec == Init /\ [][Next]_vars

\* ------------------------------------------------------------------ claims
\* The document the last call POSTed.
Sent == ret.f.sent[1]

\* C1: the TestFlag in the payload RequestPickup POSTs is true if
\* SetProductionMode(true) was never called before the call and false if it
\* was, whatever the caller put on the shipper.
C1_TestFlagFollowsMode ==
    ret.f.sent # <<>> => PayloadTestFlag(Sent) = FormatBool(~ret.promoted)

\* C2: the payload RequestPickup POSTs declares xmlns:soapenv with the envelope
\* namespace URI and xmlns:pic with the pickup namespace URI on the root, also
\* when the caller left both attributes empty.
C2_NamespacesDeclared ==
    ret.f.sent # <<>> =>
        /\ Sent.name = "soapenv:Envelope"
        /\ HasAttr(Sent, "xmlns:soapenv") /\ AttrValue(Sent, "xmlns:soapenv") = soapenv
        /\ HasAttr(Sent, "xmlns:pic") /\ AttrValue(Sent, "xmlns:pic") = pic

\* C3: production mode is promote-only: testMode is false exactly when
\* SetProductionMode(true) has been called, however many SetProductionMode(false)
\* calls came before or after it.
C3_PromoteOnly == testMode = ~promoted

C3_Witness == promoted /\ declined /\ ~testMode /\ ret.called /\ ~ret.promoted

\* C4: the Timeout of the http.Client a RequestPickup builds is the Duration
\* last passed to SetTimeout, and 10 seconds when SetTimeout was never called.
C4_TimeoutIsValuePassed ==
    ret.f.client # <<>> =>
        ret.f.client[1] = IF ret.requested = <<>> THEN Mul64(Int64(10), Second)
                          ELSE ret.requested[1]

\* C5: when marshal, POST and read succeed and the reply is a well-formed
\* document of key-value pairs, RequestPickup returns a nil error and a map
\* holding exactly those pairs.
C5_DecodesWellFormedReply ==
    (ret.called /\ ret.f.stage \in {"decode", "done"} /\ WellFormed(ret.reply)) =>
        /\ ret.f.err = NilErr
        /\ ret.f.responseData = MakeMap(Pairs(ret.reply))

\* C6: whenever RequestPickup returns a non-nil error, at whichever stage, the
\* map it returns is nil.
C6_NoPartialResult == ret.f.err # NilErr => ret.f.responseData = NilMap

C6_Witness ==
    /\ ret.called /\ ret.f.stage = "decode" /\ ret.f.err # NilErr
    /\ ret.reply = TruncatedBody /\ Pairs(ret.reply) # {}

\* C7: on every return of RequestPickup after the POST gave a response (read
\* failure, decode failure, success) the response body has been closed.
C7_BodyClosed ==
    (ret.called /\ ret.f.stage \in {"read", "decode", "done"}) => ret.f.response = "closed"

C7_Witness == ret.called /\ ret.f.stage = "read" /\ ret.f.response = "closed"

\* C8: one RequestPickup makes at most one POST, none when marshalling fails,
\* and the POSTs ever made number at most the calls.
C8_AtMostOnePost ==
    /\ Len(ret.f.sent) <= 1
    /\ ret.f.stage = "marshal" => ret.f.sent = <<>>
    /\ posts <= calls

C8_Witness ==
    /\ calls >= 2 /\ posts = calls
    /\ ret.f.stage = "post" /\ ret.f.err # NilErr /\ Len(ret.f.sent) = 1

\* C9: RequestPickup leaves every Consignee field and every Shipper field but
\* TestFlag as it found them, on success and on every error path, and leaves
\* the whole object unchanged when marshalling fails.
C9_FrameEffect ==
    ret.called =>
        /\ ret.f.p.Consignee = ret.entry.Consignee
        /\ [ret.f.p.Shipper EXCEPT !.TestFlag = ret.entry.Shipper.TestFlag] = ret.entry.Shipper
        /\ ret.f.stage = "marshal" => ret.f.p = ret.entry

C9_Witness ==
    /\ ret.called /\ ret.f.err # NilErr /\ ret.f.stage # "marshal"
    /\ ret.f.p.Shipper.TestFlag # ret.entry.Shipper.TestFlag
    /\ ret.f.p.SoapenvAttr # ret.entry.SoapenvAttr
    /\ ret.f.p.PicAttr # ret.entry.PicAttr

====
